---------------------------- MODULE Spec2Model ----------------------------
(***************************************************************************)
(* Reward catalog of pupperv3-mjx: the unit-interval catalog               *)
(* (pupperv3_mjx/rewards_test_k.py), the signed-wide catalog               *)
(* (pupperv3_mjx/rewards_test_w.py) and the wheeled reward profile         *)
(* (wheeled_reward_config.py).                                             *)
(*                                                                         *)
(* The catalogs compute on jax float32 arrays.  A float32 value is         *)
(* modelled as a triple <<kind, n, d>>:                                    *)
(*    <<"fin", n, d>>   the rational n/d in lowest terms, d > 0            *)
(*    <<"big", n, d>>   (n/d) * FLT_MAX with 0 < |n/d| <= 1, FLT_MAX the   *)
(*                      largest finite float32 (3.4028235e38)              *)
(*    <<"tiny", n, d>>  (n/d) / FLT_MAX with |n/d| >= 2^-22                  *)
(*    <<"inf", s, 1>>   s = 1: +infinity, s = -1: -infinity                *)
(*    <<"nan", 0, 1>>   not-a-number                                       *)
(*    <<"exp", n, d>>   e^(n/d) for a rational n/d # 0 inside float32's    *)
(*                      exponent range (the result of jp.exp)              *)
(* Arithmetic is exact between the scales (rounding of the last place is   *)
(* not modelled) and follows IEEE 754 at the ends of the range: a          *)
(* magnitude that rounds beyond FLT_MAX becomes an infinity, one below the *)
(* smallest subnormal 0, inf - inf and inf * 0 are NaN, NaN propagates     *)
(* through every operation including jp.clip, and every comparison with    *)
(* NaN is false.                                                           *)
(***************************************************************************)
EXTENDS Integers, Sequences, FiniteSets, TLC

VARIABLES config_dict_defined, cfg_pc, scales, tracking_sigma, pc, call, ret

vars == <<config_dict_defined, cfg_pc, scales, tracking_sigma, pc, call, ret>>

-----------------------------------------------------------------------------
(* Rational arithmetic on pairs n/d, d > 0.                                *)

AbsI(i) == IF i < 0 THEN -i ELSE i

RECURSIVE Gcd(_, _)
Gcd(a, b) == IF b = 0 THEN a ELSE Gcd(b, a % b)

\* n/d in lowest terms with a positive denominator
QNorm(n, d) ==
    LET s == IF d < 0 THEN -1 ELSE 1
        g == Gcd(AbsI(n), AbsI(d))
    IN  <<(s * n) \div g, (s * d) \div g>>

QAdd(p, q) ==
    LET g == Gcd(p[2], q[2])
    IN  QNorm(p[1] * (q[2] \div g) + q[1] * (p[2] \div g), p[2] * (q[2] \div g))

QMul(p, q) ==
    LET g1 == Gcd(AbsI(p[1]), q[2])
        g2 == Gcd(AbsI(q[1]), p[2])
    IN  QNorm((p[1] \div g1) * (q[1] \div g2), (p[2] \div g2) * (q[2] \div g1))

\* p / q for q # 0
QDiv(p, q) ==
    IF q[1] < 0 THEN QMul(p, <<-q[2], -q[1]>>) ELSE QMul(p, <<q[2], q[1]>>)

\* a/b < c/d for b, d > 0, by comparing integer parts and then the
\* reciprocals of the fractional parts (no cross product, so no overflow)
RECURSIVE QLessPos(_, _, _, _)
QLessPos(a, b, c, d) ==
    LET qa == a \div b
        qc == c \div d
        ra == a - qa * b
        rc == c - qc * d
    IN  IF qa # qc THEN qa < qc
        ELSE IF rc = 0 THEN FALSE
        ELSE IF ra = 0 THEN TRUE
        ELSE QLessPos(d, rc, b, ra)

QLess(p, q) == QLessPos(p[1], p[2], q[1], q[2])

QSign(p) == IF p[1] < 0 THEN -1 ELSE IF p[1] = 0 THEN 0 ELSE 1

-----------------------------------------------------------------------------
(* float32 values.                                                         *)

R(n, d) == LET q == QNorm(n, d) IN <<"fin", q[1], q[2]>>

Zero == R(0, 1)
One == R(1, 1)
FltMax == <<"big", 1, 1>>
PosInf == <<"inf", 1, 1>>
NegInf == <<"inf", -1, 1>>
NaN == <<"nan", 0, 1>>

Kind(x) == x[1]
Q(x) == <<x[2], x[3]>>
IsNaN(x) == Kind(x) = "nan"
IsFinite(x) == Kind(x) \in {"fin", "big", "tiny", "exp"}
Inf(s) == IF s < 0 THEN NegInf ELSE PosInf

\* the sign of a value that is not NaN: -1, 0 or 1
Sign(x) == IF Kind(x) = "exp" THEN 1 ELSE QSign(Q(x))

\* c * FLT_MAX for a rational c, rounded to nearest: FLT_MAX is
\* 2^128 - 2^104 and half its last place 2^103, so a magnitude from
\* 2^128 - 2^103 = (33554431/33554430) * FLT_MAX on is an infinity and a
\* magnitude between FLT_MAX and that rounds back to FLT_MAX
Big(c) ==
    IF c[1] = 0 THEN Zero
    ELSE IF ~QLess(<<AbsI(c[1]), c[2]>>, <<33554431, 33554430>>) THEN Inf(c[1])
    ELSE IF QLess(<<1, 1>>, <<AbsI(c[1]), c[2]>>)
         THEN <<"big", QSign(c), 1>>
    ELSE <<"big", c[1], c[2]>>

Fin(c) == <<"fin", c[1], c[2]>>

\* c / FLT_MAX for a rational c: a magnitude below 2^-150 (c below 2^-22)
\* rounds to 0
Tiny(c) ==
    IF QLess(<<AbsI(c[1]), c[2]>>, <<1, 4194304>>) THEN Zero
    ELSE <<"tiny", c[1], c[2]>>

\* the power of FLT_MAX a finite rational kind is scaled by
Level(x) == IF Kind(x) = "big" THEN 1 ELSE IF Kind(x) = "tiny" THEN -1 ELSE 0

\* c * FLT_MAX^k as a float32: FLT_MAX^2 is past FLT_MAX, FLT_MAX^-2 is
\* below the smallest subnormal
Lvl(k, c) ==
    IF c[1] = 0 THEN Zero
    ELSE IF k >= 2 THEN Inf(c[1])
    ELSE IF k = 1 THEN Big(c)
    ELSE IF k = 0 THEN Fin(c)
    ELSE IF k = -1 THEN Tiny(c)
    ELSE Zero

FNeg(x) == IF IsNaN(x) THEN NaN ELSE <<x[1], -x[2], x[3]>>

\* x + y on the kinds the catalogs add (fin, big, tiny, inf, nan): of two
\* finite values of different scale the smaller is absorbed by rounding
FAdd(x, y) ==
    IF IsNaN(x) \/ IsNaN(y) THEN NaN
    ELSE IF Kind(x) = "inf" /\ Kind(y) = "inf"
         THEN (IF x[2] = y[2] THEN x ELSE NaN)
    ELSE IF Kind(x) = "inf" THEN x
    ELSE IF Kind(y) = "inf" THEN y
    ELSE IF Sign(x) = 0 THEN y
    ELSE IF Sign(y) = 0 THEN x
    ELSE IF Level(x) > Level(y) THEN x
    ELSE IF Level(y) > Level(x) THEN y
    ELSE Lvl(Level(x), QAdd(Q(x), Q(y)))

FSub(x, y) == FAdd(x, FNeg(y))

\* x * y on the kinds the catalogs multiply (fin, big, tiny, inf, nan; an
\* exponential only by 1.0)
FMul(x, y) ==
    IF IsNaN(x) \/ IsNaN(y) THEN NaN
    ELSE IF y = One THEN x
    ELSE IF x = One THEN y
    ELSE IF Kind(x) = "inf" \/ Kind(y) = "inf"
         THEN (IF Sign(x) = 0 \/ Sign(y) = 0 THEN NaN ELSE Inf(Sign(x) * Sign(y)))
    ELSE IF Sign(x) = 0 \/ Sign(y) = 0 THEN Zero
    ELSE Lvl(Level(x) + Level(y), QMul(Q(x), Q(y)))

\* x / y on the same kinds: x / 0 is an infinity (0 / 0 NaN), x / inf is 0
\* (inf / inf NaN)
FDiv(x, y) ==
    IF IsNaN(x) \/ IsNaN(y) THEN NaN
    ELSE IF y = One THEN x
    ELSE IF Sign(y) = 0
         THEN (IF Sign(x) = 0 THEN NaN ELSE Inf(Sign(x)))
    ELSE IF Kind(y) = "inf"
         THEN (IF Kind(x) = "inf" THEN NaN ELSE Zero)
    ELSE IF Kind(x) = "inf" THEN Inf(Sign(x) * Sign(y))
    ELSE IF Sign(x) = 0 THEN Zero
    ELSE Lvl(Level(x) - Level(y), QDiv(Q(x), Q(y)))

FSquare(x) == FMul(x, x)

FAbs(x) == IF IsNaN(x) THEN NaN ELSE <<x[1], AbsI(x[2]), x[3]>>

\* rank of a kind on the number line, for values of different kinds
Rank(x) ==
    IF Kind(x) = "inf" THEN 4 * x[2]
    ELSE IF Kind(x) = "big" THEN 3 * Sign(x)
    ELSE IF Kind(x) = "tiny" THEN Sign(x)
    ELSE 2 * Sign(x)

\* e^q < r, for the rationals r the catalogs compare an exponential with:
\* r <= 0, r = 1 and r = 1000 (ln 1000 = 6.907755...)
ExpLessFin(q, r) ==
    IF r[1] <= 0 THEN FALSE
    ELSE IF r = <<1, 1>> THEN q[1] < 0
    ELSE QLess(q, <<6907755, 1000000>>)

\* r < e^q, same cases
FinLessExp(r, q) ==
    IF r[1] <= 0 THEN TRUE
    ELSE IF r = <<1, 1>> THEN q[1] > 0
    ELSE QLess(<<6907755, 1000000>>, q)

\* x < y; false when either is NaN
FLess(x, y) ==
    IF IsNaN(x) \/ IsNaN(y) THEN FALSE
    ELSE IF Kind(x) = "exp" /\ Kind(y) = "exp" THEN QLess(Q(x), Q(y))
    ELSE IF Kind(x) = "exp"
         THEN (IF Kind(y) = "fin" THEN ExpLessFin(Q(x), Q(y)) ELSE Rank(y) > 2)
    ELSE IF Kind(y) = "exp"
         THEN (IF Kind(x) = "fin" THEN FinLessExp(Q(x), Q(y)) ELSE Rank(x) < 2)
    ELSE IF Rank(x) # Rank(y) THEN Rank(x) < Rank(y)
    ELSE IF Kind(x) = "inf" THEN FALSE
    ELSE QLess(Q(x), Q(y))

FLeq(x, y) == ~IsNaN(x) /\ ~IsNaN(y) /\ ~FLess(y, x)

\* jp.maximum / jp.minimum: NaN propagates
FMax(x, y) == IF IsNaN(x) \/ IsNaN(y) THEN NaN ELSE IF FLess(x, y) THEN y ELSE x
FMin(x, y) == IF IsNaN(x) \/ IsNaN(y) THEN NaN ELSE IF FLess(y, x) THEN y ELSE x

\* jp.clip(x, lo, hi) = minimum(maximum(x, lo), hi)
Clip(x, lo, hi) == CHOOSE r \in {FMin(FMax(v, lo), hi) : v \in {x}} : TRUE

\* jp.exp in float32 (subnormal results kept):
\*   0 when e^x is below 2^-150, x < -150 ln 2 = -103.972077...
\*   +inf when e^x reaches 2^128 - 2^103, x > 88.722839...
\*   1.0 when e^x rounds to 1: -2^-25 <= x <= 2^-24
FExp(x) ==
    IF IsNaN(x) THEN NaN
    ELSE IF Kind(x) \in {"inf", "big"} THEN (IF Sign(x) > 0 THEN PosInf ELSE Zero)
    ELSE IF Sign(x) = 0 \/ Kind(x) = "tiny" THEN One
    ELSE IF QLess(Q(x), <<-103972077, 1000000>>) THEN Zero
    ELSE IF QLess(<<88722839, 1000000>>, Q(x)) THEN PosInf
    ELSE IF ~QLess(Q(x), <<-1, 33554432>>) /\ ~QLess(<<1, 16777216>>, Q(x)) THEN One
    ELSE <<"exp", x[2], x[3]>>

\* a boolean used as a factor: True is 1.0, False is 0.0
B2F(b) == IF b THEN One ELSE Zero

\* jp.sum of a sequence, left to right (acc is the partial sum, bound to
\* its value before the next addition)
RECURSIVE FSum(_)
FSum(s) ==
    IF s = <<>> THEN Zero
    ELSE CHOOSE r \in {FAdd(acc, s[Len(s)]) : acc \in {FSum(SubSeq(s, 1, Len(s) - 1))}} : TRUE

-----------------------------------------------------------------------------
(* Vectors (jax arrays of rank 1) and the brax.math helpers the catalogs   *)
(* call.                                                                   *)

Const(n, v) == [i \in 1..n |-> v]
Unit(n, j, v) == [i \in 1..n |-> IF i = j THEN v ELSE Zero]

VSub(a, b) == [i \in 1..Len(a) |-> FSub(a[i], b[i])]
VAdd(a, b) == [i \in 1..Len(a) |-> FAdd(a[i], b[i])]
VMul(a, b) == [i \in 1..Len(a) |-> FMul(a[i], b[i])]
VScale(c, a) == [i \in 1..Len(a) |-> FMul(c, a[i])]
VDivS(a, c) == [i \in 1..Len(a) |-> FDiv(a[i], c)]
VSquare(a) == [i \in 1..Len(a) |-> FSquare(a[i])]
VAbs(a) == [i \in 1..Len(a) |-> FAbs(a[i])]

\* jp.dot and jp.cross on 3-vectors
Dot(a, b) == FSum(VMul(a, b))
Cross(a, b) ==
    << FSub(FMul(a[2], b[3]), FMul(a[3], b[2])),
       FSub(FMul(a[3], b[1]), FMul(a[1], b[3])),
       FSub(FMul(a[1], b[2]), FMul(a[2], b[1])) >>

\* brax.math.quat_inv: q * [1, -1, -1, -1]
quat_inv(q) == <<q[1], FNeg(q[2]), FNeg(q[3]), FNeg(q[4])>>

\* brax.math.rotate(vec, quat):
\*   s, u = quat[0], quat[1:]
\*   r = 2 * (dot(u, vec) * u) + (s * s - dot(u, u)) * vec
\*   r = r + 2 * s * cross(u, vec)
rotate(vec, quat) ==
    LET s == quat[1]
        u == SubSeq(quat, 2, 4)
        r == VAdd(VScale(R(2, 1), VScale(Dot(u, vec), u)),
                  VScale(FSub(FMul(s, s), Dot(u, u)), vec))
    IN  VAdd(r, VScale(FMul(R(2, 1), s), Cross(u, vec)))

\* brax.math.normalize(v)[1] > t: the Euclidean norm sqrt(sum(v^2)) against
\* a threshold, decided on the squares (the sum of squares overflows to
\* +inf exactly when the float32 norm does)
norm_gt(v, t) ==
    LET ss == FSum(VSquare(v))
    IN  ~IsNaN(ss) /\ ~IsNaN(t) /\ (Sign(t) < 0 \/ FLess(FSquare(t), ss))

\* brax.math.normalize(v)[1] < t
norm_lt(v, t) ==
    LET ss == FSum(VSquare(v))
    IN  ~IsNaN(ss) /\ ~IsNaN(t) /\ Sign(t) > 0 /\ FLess(ss, FSquare(t))

\* Transform.create(pos=offset).do(Motion).vel for one body: the rotation
\* of the created transform is the identity quaternion
IdentityQuat == <<One, Zero, Zero, Zero>>
transform_do_vel(pos, vel, ang) ==
    rotate(VSub(vel, Cross(pos, ang)), quat_inv(IdentityQuat))

EPS == R(1, 1000000)

\* jp.pi ** 2 and 12.0 * jp.pi as the float32 divisors they become:
\* 9.869604110717773 = 5174515 / 2^19, 37.69911193847656 = 2470649 / 2^16
PiSquared == R(5174515, 524288)
TwelvePi == R(2470649, 65536)

\* joint_angles[1::3]: every third entry from (0-based) index 1
Stride3From1(a) == [i \in 1..((Len(a) + 1) \div 3) |-> a[3 * i - 1]]

-----------------------------------------------------------------------------
(* The unit-interval catalog, pupperv3_mjx/rewards_test_k.py.  xd is the base body's    *)
(* Motion [vel, ang] (xd.vel[0], xd.ang[0]), x the base body's Transform   *)
(* [rot] (x.rot[0]).                                                       *)

k_reward_lin_vel_z(xd) ==
    Clip(FDiv(FSquare(xd.vel[3]), R(4, 1)), Zero, One)

k_reward_ang_vel_xy(xd) ==
    Clip(FDiv(FSum(VSquare(SubSeq(xd.ang, 1, 2))), R(25, 1)), Zero, One)

k_reward_tracking_orientation(desired_world_z_in_body_frame, x, sigma) ==
    LET world_z == <<Zero, Zero, One>>
        world_z_in_body_frame == rotate(world_z, quat_inv(x.rot))
        error == FSum(VSquare(VSub(world_z_in_body_frame, desired_world_z_in_body_frame)))
    IN  Clip(FExp(FDiv(FNeg(error), FAdd(sigma, EPS))), Zero, One)

k_reward_orientation(x) ==
    LET up == <<Zero, Zero, One>>
        rot_up == rotate(up, x.rot)
    IN  Clip(FDiv(FSum(VSquare(SubSeq(rot_up, 1, 2))), R(2, 1)), Zero, One)

k_reward_torques(torques) ==
    Clip(FDiv(FSum(VSquare(torques)), R(1200, 1)), Zero, One)

\* variant: the velocity difference not divided by the time step
k_reward_joint_acceleration_undivided(joint_vel, last_joint_vel, dt) ==
    LET acceleration == FSum(VSquare(VSub(joint_vel, last_joint_vel)))
    IN  Clip(FDiv(acceleration, R(120000, 1)), Zero, One)

k_reward_joint_acceleration(joint_vel, last_joint_vel, dt) ==
    LET acceleration ==
            FSum(VSquare(VDivS(VSub(joint_vel, last_joint_vel), FAdd(dt, EPS))))
    IN  Clip(FDiv(acceleration, R(120000, 1)), Zero, One)

k_reward_mechanical_work(torques, velocities) ==
    Clip(FDiv(FSum(VAbs(VMul(torques, velocities))), R(600, 1)), Zero, One)

k_reward_action_rate(act, last_act) ==
    Clip(FDiv(FSum(VSquare(VSub(act, last_act))), R(48, 1)), Zero, One)

\* variant: the exponent without its negation
k_reward_tracking_lin_vel_unnegated(commands, x, xd, sigma) ==
    LET local_vel == rotate(xd.vel, quat_inv(x.rot))
        lin_vel_error ==
            FSum(VSquare(VSub(SubSeq(commands, 1, 2), SubSeq(local_vel, 1, 2))))
    IN  Clip(FExp(FDiv(lin_vel_error, FAdd(sigma, EPS))), Zero, One)

k_reward_tracking_lin_vel(commands, x, xd, sigma) ==
    LET local_vel == rotate(xd.vel, quat_inv(x.rot))
        lin_vel_error ==
            FSum(VSquare(VSub(SubSeq(commands, 1, 2), SubSeq(local_vel, 1, 2))))
        lin_vel_reward == FExp(FDiv(FNeg(lin_vel_error), FAdd(sigma, EPS)))
    IN  Clip(lin_vel_reward, Zero, One)

k_reward_tracking_ang_vel(commands, x, xd, sigma) ==
    LET base_ang_vel == rotate(xd.ang, quat_inv(x.rot))
        ang_vel_error == FSquare(FSub(commands[3], base_ang_vel[3]))
    IN  Clip(FExp(FDiv(FNeg(ang_vel_error), FAdd(sigma, EPS))), Zero, One)

k_reward_feet_air_time(air_time, first_contact, commands, minimum_airtime) ==
    LET rew_air_time ==
            FSum([i \in 1..Len(air_time) |->
                    FMul(FSub(air_time[i], minimum_airtime), B2F(first_contact[i]))])
        gated == FMul(rew_air_time, B2F(norm_gt(SubSeq(commands, 1, 3), R(5, 100))))
    IN  Clip(FDiv(gated, R(2, 1)), Zero, One)

k_reward_abduction_angle(joint_angles, desired_abduction_angles) ==
    Clip(FDiv(FSum(VSquare(VSub(Stride3From1(joint_angles), desired_abduction_angles))), PiSquared), Zero, One)

k_reward_stand_still(commands, joint_angles, default_pose, command_threshold) ==
    LET penalty ==
            FMul(FSum(VAbs(VSub(joint_angles, default_pose))),
                 B2F(norm_lt(SubSeq(commands, 1, 3), command_threshold)))
    IN  Clip(FDiv(penalty, TwelvePi), Zero, One)

k_reward_foot_slip(pipeline_state, contact_filt, feet_site_id, lower_leg_body_id) ==
    LET pos == [f \in 1..Len(feet_site_id) |-> pipeline_state.site_xpos[feet_site_id[f] + 1]]
        feet_offset ==
            [f \in 1..Len(feet_site_id) |->
                VSub(pos[f], pipeline_state.xpos[lower_leg_body_id[f] + 1])]
        foot_indices == [f \in 1..Len(lower_leg_body_id) |-> lower_leg_body_id[f] - 1]
        foot_vel ==
            [f \in 1..Len(foot_indices) |->
                transform_do_vel(feet_offset[f],
                                 pipeline_state.xd.vel[foot_indices[f] + 1],
                                 pipeline_state.xd.ang[foot_indices[f] + 1])]
        masked ==
            [f \in 1..Len(foot_vel) |->
                FSum(VScale(B2F(contact_filt[f]), VSquare(SubSeq(foot_vel[f], 1, 2))))]
        slip_penalty == FSum(masked)
    IN  Clip(FDiv(slip_penalty, R(16, 1)), Zero, One)

\* variant: the step bound taken inclusively
k_reward_termination_inclusive(done, step, step_threshold) ==
    done /\ (step <= step_threshold)

k_reward_termination(done, step, step_threshold) ==
    done /\ (step < step_threshold)

\* variant: a contact counts once if it touches any watched id
k_reward_geom_collision_once_per_contact(pipeline_state, geom_ids) ==
    LET c == pipeline_state.contact
        hit(j) == \E g \in 1..Len(geom_ids) :
                      c[j].geom1 = geom_ids[g] \/ c[j].geom2 = geom_ids[g]
        contact == R(Cardinality({j \in 1..Len(c) : hit(j) /\ FLess(c[j].dist, Zero)}), 1)
    IN  Clip(FDiv(contact, R(10, 1)), Zero, One)

\* variant: a contact counts only through its first geom
k_reward_geom_collision_geom1_only(pipeline_state, geom_ids) ==
    LET c == pipeline_state.contact
        hits(id) ==
            Cardinality({j \in 1..Len(c) : c[j].geom1 = id /\ FLess(c[j].dist, Zero)})
        contact == FSum([g \in 1..Len(geom_ids) |-> R(hits(geom_ids[g]), 1)])
    IN  Clip(FDiv(contact, R(10, 1)), Zero, One)

k_reward_geom_collision(pipeline_state, geom_ids) ==
    LET c == pipeline_state.contact
        hits(id) ==
            Cardinality({j \in 1..Len(c) :
                (c[j].geom1 = id \/ c[j].geom2 = id) /\ FLess(c[j].dist, Zero)})
        contact == FSum([g \in 1..Len(geom_ids) |-> R(hits(geom_ids[g]), 1)])
    IN  Clip(FDiv(contact, R(10, 1)), Zero, One)

-----------------------------------------------------------------------------
(* The signed-wide   catalog, pupperv3_mjx/rewards_test_w.py.  xd is the base body's    *)
(* Motion [vel, ang] (xd.vel[0], xd.ang[0]), x the base body's Transform   *)
(* [rot] (x.rot[0]).                                                       *)

w_reward_lin_vel_z(xd) ==
    Clip(FSquare(xd.vel[3]), R(-1000, 1), R(1000, 1))

w_reward_ang_vel_xy(xd) ==
    Clip(FSum(VSquare(SubSeq(xd.ang, 1, 2))), R(-1000, 1), R(1000, 1))

w_reward_tracking_orientation(desired_world_z_in_body_frame, x, sigma) ==
    LET world_z == <<Zero, Zero, One>>
        world_z_in_body_frame == rotate(world_z, quat_inv(x.rot))
        error == FSum(VSquare(VSub(world_z_in_body_frame, desired_world_z_in_body_frame)))
    IN  Clip(FExp(FDiv(FNeg(error), FAdd(sigma, EPS))), R(-1000, 1), R(1000, 1))

w_reward_orientation(x) ==
    LET up == <<Zero, Zero, One>>
        rot_up == rotate(up, x.rot)
    IN  Clip(FSum(VSquare(SubSeq(rot_up, 1, 2))), R(-1000, 1), R(1000, 1))

w_reward_torques(torques) ==
    Clip(FSum(VSquare(torques)), R(-1000, 1), R(1000, 1))

w_reward_joint_acceleration(joint_vel, last_joint_vel, dt) ==
    Clip(FSum(VSquare(VDivS(VSub(joint_vel, last_joint_vel), FAdd(dt, EPS)))), R(-1000, 1), R(1000, 1))

w_reward_mechanical_work(torques, velocities) ==
    Clip(FSum(VAbs(VMul(torques, velocities))), R(-1000, 1), R(1000, 1))

w_reward_action_rate(act, last_act) ==
    Clip(FSum(VSquare(VSub(act, last_act))), R(-1000, 1), R(1000, 1))

w_reward_tracking_lin_vel(commands, x, xd, sigma) ==
    LET local_vel == rotate(xd.vel, quat_inv(x.rot))
        lin_vel_error ==
            FSum(VSquare(VSub(SubSeq(commands, 1, 2), SubSeq(local_vel, 1, 2))))
        lin_vel_reward == FExp(FDiv(FNeg(lin_vel_error), FAdd(sigma, EPS)))
    IN  Clip(lin_vel_reward, R(-1000, 1), R(1000, 1))

w_reward_tracking_ang_vel(commands, x, xd, sigma) ==
    LET base_ang_vel == rotate(xd.ang, quat_inv(x.rot))
        ang_vel_error == FSquare(FSub(commands[3], base_ang_vel[3]))
    IN  Clip(FExp(FDiv(FNeg(ang_vel_error), FAdd(sigma, EPS))), R(-1000, 1), R(1000, 1))

w_reward_feet_air_time(air_time, first_contact, commands, minimum_airtime) ==
    LET rew_air_time ==
            FSum([i \in 1..Len(air_time) |->
                    FMul(FSub(air_time[i], minimum_airtime), B2F(first_contact[i]))])
        gated == FMul(rew_air_time, B2F(norm_gt(SubSeq(commands, 1, 3), R(5, 100))))
    IN  Clip(gated, R(-1000, 1), R(1000, 1))

w_reward_abduction_angle(joint_angles, desired_abduction_angles) ==
    Clip(FSum(VSquare(VSub(Stride3From1(joint_angles), desired_abduction_angles))), R(-1000, 1), R(1000, 1))

w_reward_stand_still(commands, joint_angles, default_pose, command_threshold) ==
    Clip(FMul(FSum(VAbs(VSub(joint_angles, default_pose))),
              B2F(norm_lt(SubSeq(commands, 1, 3), command_threshold))),
         R(-1000, 1), R(1000, 1))

w_reward_foot_slip(pipeline_state, contact_filt, feet_site_id, lower_leg_body_id) ==
    LET pos == [f \in 1..Len(feet_site_id) |-> pipeline_state.site_xpos[feet_site_id[f] + 1]]
        feet_offset ==
            [f \in 1..Len(feet_site_id) |->
                VSub(pos[f], pipeline_state.xpos[lower_leg_body_id[f] + 1])]
        foot_indices == [f \in 1..Len(lower_leg_body_id) |-> lower_leg_body_id[f] - 1]
        foot_vel ==
            [f \in 1..Len(foot_indices) |->
                transform_do_vel(feet_offset[f],
                                 pipeline_state.xd.vel[foot_indices[f] + 1],
                                 pipeline_state.xd.ang[foot_indices[f] + 1])]
        masked ==
            [f \in 1..Len(foot_vel) |->
                FSum(VScale(B2F(contact_filt[f]), VSquare(SubSeq(foot_vel[f], 1, 2))))]
    IN  Clip(FSum(masked), R(-1000, 1), R(1000, 1))

w_reward_termination(done, step, step_threshold) ==
    done /\ (step < step_threshold)

w_reward_geom_collision(pipeline_state, geom_ids) ==
    LET c == pipeline_state.contact
        hits(id) ==
            Cardinality({j \in 1..Len(c) :
                (c[j].geom1 = id \/ c[j].geom2 = id) /\ FLess(c[j].dist, Zero)})
        contact == FSum([g \in 1..Len(geom_ids) |-> R(hits(geom_ids[g]), 1)])
    IN  Clip(contact, R(-1000, 1), R(1000, 1))

-----------------------------------------------------------------------------
(* The wheeled profile, wheeled_reward_config.py: after the three          *)
(* ConfigDict constructions (lines 1-3) the module is a straight line of   *)
(* attribute assignments, executed top to bottom.                          *)

WheeledProgram ==
    << [line |-> 7,  target |-> "scale", key |-> "tracking_lin_vel", val |-> R(25, 10)],
       [line |-> 10, target |-> "scale", key |-> "tracking_ang_vel", val |-> R(15, 10)],
       [line |-> 14, target |-> "scale", key |-> "lin_vel_z", val |-> R(-5, 1)],
       [line |-> 17, target |-> "scale", key |-> "ang_vel_xy", val |-> R(-2, 1)],
       [line |-> 20, target |-> "scale", key |-> "orientation", val |-> R(-8, 1)],
       [line |-> 24, target |-> "scale", key |-> "action_rate", val |-> R(-5, 100)],
       [line |-> 27, target |-> "scale", key |-> "torques", val |-> R(-1, 1000)],
       [line |-> 31, target |-> "scale", key |-> "stand_still", val |-> R(-1, 1)],
       [line |-> 35, target |-> "scale", key |-> "body_collision", val |-> R(-10, 1)],
       [line |-> 38, target |-> "scale", key |-> "termination", val |-> R(-200, 1)],
       [line |-> 42, target |-> "scale", key |-> "tracking_orientation", val |-> R(0, 1)],
       [line |-> 43, target |-> "scale", key |-> "joint_acceleration", val |-> R(0, 1)],
       [line |-> 44, target |-> "scale", key |-> "mechanical_work", val |-> R(0, 1)],
       [line |-> 45, target |-> "scale", key |-> "feet_air_time", val |-> R(0, 1)],
       [line |-> 46, target |-> "scale", key |-> "stand_still_joint_velocity", val |-> R(0, 1)],
       [line |-> 47, target |-> "scale", key |-> "abduction_angle", val |-> R(0, 1)],
       [line |-> 48, target |-> "scale", key |-> "foot_slip", val |-> R(0, 1)],
       [line |-> 49, target |-> "scale", key |-> "knee_collision", val |-> R(0, 1)],
       [line |-> 52, target |-> "sigma", key |-> "tracking_sigma", val |-> R(25, 100)] >>

\* variant: an assignment of 0.0 leaves the key unset
SetItem_skip_zero(d, key, val) ==
    IF val = Zero THEN d
    ELSE [k \in (DOMAIN d) \cup {key} |-> IF k = key THEN val ELSE d[k]]

\* ConfigDict attribute assignment: the key is created or overwritten
SetItem(d, key, val) ==
    [k \in (DOMAIN d) \cup {key} |-> IF k = key THEN val ELSE d[k]]

\* Lines 1-3, reward_config = config_dict.ConfigDict() and the two nested
\* ConfigDicts.  The module neither imports nor defines config_dict: the
\* statements run only where the executing namespace already binds it.
ConfigCreate ==
    /\ pc = "start"
    /\ config_dict_defined
    /\ scales' = <<>>
    /\ pc' = "loading"
    /\ UNCHANGED <<config_dict_defined, cfg_pc, tracking_sigma, call, ret>>

\* Line 1 run as the module stands: NameError (name 'config_dict' is not
\* defined); no statement after it is executed and nothing is loaded.
ConfigNameError ==
    /\ pc = "start"
    /\ ~config_dict_defined
    /\ pc' = "failed"
    /\ UNCHANGED <<config_dict_defined, cfg_pc, scales, tracking_sigma, call, ret>>

\* One assignment statement of the profile; after the last one the profile
\* is loaded.  No statement of the module inspects a key or a value.
ConfigAssign ==
    /\ pc = "loading"
    /\ cfg_pc <= Len(WheeledProgram)
    /\ LET st == WheeledProgram[cfg_pc]
       IN  /\ scales' = IF st.target = "scale" THEN SetItem(scales, st.key, st.val)
                        ELSE scales
           /\ tracking_sigma' = IF st.target = "sigma" THEN st.val ELSE tracking_sigma
    /\ cfg_pc' = cfg_pc + 1
    /\ pc' = IF cfg_pc = Len(WheeledProgram) THEN "ready" ELSE "loading"
    /\ UNCHANGED <<config_dict_defined, call, ret>>

\* The terms of the catalog, in the order the catalogs define them
\* (def reward_<term>)
CatalogTerms ==
    << "lin_vel_z", "ang_vel_xy", "tracking_orientation", "orientation", "torques",
       "joint_acceleration", "mechanical_work", "action_rate", "tracking_lin_vel",
       "tracking_ang_vel", "feet_air_time", "abduction_angle", "stand_still",
       "foot_slip", "termination", "geom_collision" >>

CatalogTermSet == {CatalogTerms[i] : i \in 1..Len(CatalogTerms)}


-----------------------------------------------------------------------------
(* The weighted aggregator of the design (no source file holds it).  The   *)
(* total is the sum of scale * value over the catalog's output, every      *)
(* product computed in float32, a term without a configured scale taking   *)
(* scale 0; a scale key that names no catalog term is a configuration      *)
(* error and no total is produced.                                         *)

scale_of(sc, term) == IF term \in DOMAIN sc THEN sc[term] ELSE Zero

unknown_scale_keys(sc) == (DOMAIN sc) \ CatalogTermSet

RECURSIVE aggregate_from(_, _, _)
aggregate_from(i, values, sc) ==
    IF i > Len(CatalogTerms) THEN Zero
    ELSE LET t == CatalogTerms[i]
             rest == aggregate_from(i + 1, values, sc)
         IN  IF t \in DOMAIN values
             THEN FAdd(FMul(scale_of(sc, t), values[t]), rest)
             ELSE rest

aggregate(values, sc) ==
    IF unknown_scale_keys(sc) # {}
    THEN [error |-> "ConfigValidationError", total |-> NaN]
    ELSE [error |-> "none", total |-> aggregate_from(1, values, sc)]

-----------------------------------------------------------------------------
(* Inputs.  The catalogs are pure functions of one simulation step's       *)
(* snapshot; each is applied to snapshots drawn from the sets below, which *)
(* hold ordinary magnitudes, magnitudes past every clip bound and the      *)
(* largest finite float32.                                                 *)

MaxStep == 3
MaxContacts == 5
NJoints == 12
NFeet == 4

Scalars == {Zero, One, R(2, 1), R(-2, 1), R(10, 1), R(100, 1), FltMax, FNeg(FltMax)}
Comp == {Zero, One, R(-2, 1), FltMax}
Vec3 == {<<a, b, c>> : a \in Comp, b \in Comp, c \in Comp}
ZeroVec3 == <<Zero, Zero, Zero>>

Vels ==
    { ZeroVec3, <<One, Zero, Zero>>, <<Zero, Zero, R(2, 1)>>, <<R(-2, 1), One, Zero>>,
      <<FltMax, Zero, Zero>> }

\* unit quaternions: no rotation, half a turn about x, 106 degrees about x
Rots == {IdentityQuat, <<Zero, One, Zero, Zero>>, <<R(3, 5), R(4, 5), Zero, Zero>>}

\* commands [vx, vy, yaw rate]
Commands ==
    { ZeroVec3, <<One, Zero, Zero>>, <<Zero, Zero, One>>,
      <<R(3, 100), R(4, 100), Zero>>, <<R(3, 100), R(4, 100), R(1, 100)>>,
      <<Zero, R(1, 20), Zero>>, <<Zero, Zero, R(1, 20)>>,
      <<R(6, 1), Zero, Zero>>, <<R(7, 1), Zero, Zero>>,
      <<Zero, Zero, R(6, 1)>>, <<Zero, Zero, R(7, 1)>>, <<FltMax, Zero, Zero>>,
      <<Zero, Zero, R(1, 20000)>> }

Desired ==
    { <<Zero, Zero, One>>, <<Zero, Zero, R(-1, 1)>>, <<Zero, One, Zero>>,
      <<Zero, Zero, R(6, 1)>>, <<Zero, Zero, R(7, 1)>>, <<Zero, Zero, FltMax>> }

\* the loaded profile's tracking_sigma, a wider one and the largest float32
Sigmas == {tracking_sigma, One, FltMax}

JointVecs ==
    {Const(NJoints, v) : v \in Scalars} \cup {Unit(NJoints, 2, v) : v \in Scalars}

\* joint angles for abduction_angle: up to and past the clip bound pi^2
AbductionAngles ==
    {Const(NJoints, v) : v \in {Zero, One, R(2, 1), R(-2, 1), R(10, 1), FltMax}}
        \cup {Unit(NJoints, 2, v) : v \in {One, R(3, 1), FltMax}}

PoseVecs ==
    {Const(NJoints, v) : v \in {Zero, One, R(100, 1), FltMax}}
        \cup {Unit(NJoints, 1, R(1, 2))}

RateVecs ==
    {Const(NJoints, v) : v \in {Zero, R(1, 10), One, R(2, 1), FltMax, FNeg(FltMax)}}

\* dt: EPS short of 1 ms and of 20 ms
Dts == {R(999, 1000000), R(19999, 1000000)}

AirTimes ==
    {Const(NFeet, v) : v \in {Zero, R(3, 10), R(5000, 1), R(-5000, 1), FltMax}}
        \cup {Unit(NFeet, 1, R(1, 2))}
FirstContacts == {Const(NFeet, FALSE), Const(NFeet, TRUE), [i \in 1..NFeet |-> i = 1]}
MinAirtimes == {R(1, 10), Zero}
Thresholds == {R(1, 10), R(1, 20), Zero, R(-1, 1), R(2, 1)}
AbductionTargets == {Const(NFeet, Zero), Const(NFeet, One)}

\* a snapshot for foot_slip: body 0 is the world, bodies 1..NFeet the lower
\* legs, site f the foot of lower leg f + 1; xd has no entry for the world
FootStates ==
    { [ site_xpos |-> Const(NFeet, site),
        xpos |-> Const(NFeet + 1, ZeroVec3),
        xd |-> [vel |-> Const(NFeet, v), ang |-> Const(NFeet, a)] ] :
      site \in {ZeroVec3, <<One, Zero, Zero>>},
      v \in {ZeroVec3, <<One, R(2, 1), Zero>>, <<R(100, 1), Zero, Zero>>, <<FltMax, Zero, Zero>>},
      a \in {ZeroVec3, <<Zero, Zero, One>>, <<Zero, Zero, FltMax>>} }
FeetSiteId == [f \in 1..NFeet |-> f - 1]
LowerLegBodyId == [f \in 1..NFeet |-> f]

ContactKinds ==
    { [geom1 |-> 5, geom2 |-> 9, dist |-> R(-1, 100)],
      [geom1 |-> 1, geom2 |-> 2, dist |-> R(1, 2)],
      [geom1 |-> 1, geom2 |-> 9, dist |-> R(-1, 100)],
      [geom1 |-> 5, geom2 |-> 9, dist |-> Zero] }

RECURSIVE SeqsUpTo(_, _)
SeqsUpTo(S, n) ==
    IF n = 0 THEN {<<>>}
    ELSE LET shorter == SeqsUpTo(S, n - 1)
         IN  shorter \cup {Append(q, e) : q \in {r \in shorter : Len(r) = n - 1}, e \in S}

ContactLists == SeqsUpTo(ContactKinds, MaxContacts)
GeomIdLists == {<<>>, <<9>>, <<2>>, <<5, 9>>}

\* per-term values handed to the aggregator: what the catalogs return.
\* Values of the unit interval and of the signed-wide range, the boolean of
\* termination as 0 or 1, and NaN for the three gated terms that return it
\* (the final clip keeps every other result finite)
TermValues == {Zero, R(1, 2), One, R(-3, 1), R(1000, 1), R(-1000, 1)}
NaNTerms == {"feet_air_time", "stand_still", "foot_slip"}
ValueOf(t, v) == IF t = "termination" THEN (IF v = Zero THEN Zero ELSE One) ELSE v
ValueMaps ==
    {[t \in CatalogTermSet |-> ValueOf(t, v)] : v \in TermValues}
        \cup {[t \in CatalogTermSet |-> IF t = u THEN ValueOf(t, v) ELSE Zero] :
                 u \in CatalogTermSet, v \in TermValues \ {Zero}}
        \cup {[t \in CatalogTermSet \ {u} |-> One] : u \in CatalogTermSet}
        \cup {[t \in CatalogTermSet |-> IF t = u THEN NaN ELSE One] : u \in NaNTerms}

Restrict(f, S) == [k \in (DOMAIN f) \cap S |-> f[k]]

-----------------------------------------------------------------------------
(* One step: a term of both catalogs is applied to the same snapshot.      *)

Evaluate(term, args, k, w) ==
    /\ call' = [term |-> term, args |-> args]
    /\ ret' = [term |-> term, k |-> k, w |-> w]
    /\ pc' = "evaluated"
    /\ UNCHANGED <<config_dict_defined, cfg_pc, scales, tracking_sigma>>

Eval_lin_vel_z ==
    /\ pc = "ready"
    /\ \E v \in Scalars :
        LET xd == [vel |-> <<Zero, Zero, v>>, ang |-> ZeroVec3]
        IN  Evaluate("lin_vel_z", [xd |-> xd],
                     k_reward_lin_vel_z(xd), w_reward_lin_vel_z(xd))

Eval_ang_vel_xy ==
    /\ pc = "ready"
    /\ \E a \in Vec3 :
        LET xd == [vel |-> ZeroVec3, ang |-> a]
        IN  Evaluate("ang_vel_xy", [xd |-> xd],
                     k_reward_ang_vel_xy(xd), w_reward_ang_vel_xy(xd))

Eval_tracking_orientation ==
    /\ pc = "ready"
    /\ \E d \in Desired, q \in Rots, sg \in Sigmas :
        LET x == [rot |-> q]
        IN  Evaluate("tracking_orientation", [desired |-> d, x |-> x, sigma |-> sg],
                     k_reward_tracking_orientation(d, x, sg),
                     w_reward_tracking_orientation(d, x, sg))

Eval_orientation ==
    /\ pc = "ready"
    /\ \E q \in Rots :
        LET x == [rot |-> q]
        IN  Evaluate("orientation", [x |-> x],
                     k_reward_orientation(x), w_reward_orientation(x))

Eval_torques ==
    /\ pc = "ready"
    /\ \E t \in JointVecs :
        Evaluate("torques", [torques |-> t], k_reward_torques(t), w_reward_torques(t))

Eval_joint_acceleration ==
    /\ pc = "ready"
    /\ \E jv \in RateVecs, ljv \in RateVecs, dt \in Dts :
        Evaluate("joint_acceleration", [joint_vel |-> jv, last_joint_vel |-> ljv, dt |-> dt],
                 k_reward_joint_acceleration(jv, ljv, dt),
                 w_reward_joint_acceleration(jv, ljv, dt))

Eval_mechanical_work ==
    /\ pc = "ready"
    /\ \E t \in JointVecs, v \in RateVecs :
        Evaluate("mechanical_work", [torques |-> t, velocities |-> v],
                 k_reward_mechanical_work(t, v), w_reward_mechanical_work(t, v))

Eval_action_rate ==
    /\ pc = "ready"
    /\ \E a \in JointVecs, la \in RateVecs :
        Evaluate("action_rate", [act |-> a, last_act |-> la],
                 k_reward_action_rate(a, la), w_reward_action_rate(a, la))

Eval_tracking_lin_vel ==
    /\ pc = "ready"
    /\ \E c \in Commands, q \in Rots, v \in Vels, sg \in Sigmas :
        LET x == [rot |-> q]
            xd == [vel |-> v, ang |-> ZeroVec3]
        IN  Evaluate("tracking_lin_vel", [commands |-> c, x |-> x, xd |-> xd, sigma |-> sg],
                     k_reward_tracking_lin_vel(c, x, xd, sg),
                     w_reward_tracking_lin_vel(c, x, xd, sg))

Eval_tracking_ang_vel ==
    /\ pc = "ready"
    /\ \E c \in Commands, q \in Rots, a \in Vels, sg \in Sigmas :
        LET x == [rot |-> q]
            xd == [vel |-> ZeroVec3, ang |-> a]
        IN  Evaluate("tracking_ang_vel", [commands |-> c, x |-> x, xd |-> xd, sigma |-> sg],
                     k_reward_tracking_ang_vel(c, x, xd, sg),
                     w_reward_tracking_ang_vel(c, x, xd, sg))

Eval_feet_air_time ==
    /\ pc = "ready"
    /\ \E at \in AirTimes, fc \in FirstContacts, c \in Commands, m \in MinAirtimes :
        Evaluate("feet_air_time",
                 [air_time |-> at, first_contact |-> fc, commands |-> c,
                  minimum_airtime |-> m],
                 k_reward_feet_air_time(at, fc, c, m),
                 w_reward_feet_air_time(at, fc, c, m))

Eval_abduction_angle ==
    /\ pc = "ready"
    /\ \E ja \in AbductionAngles, d \in AbductionTargets :
        Evaluate("abduction_angle", [joint_angles |-> ja, desired_abduction_angles |-> d],
                 k_reward_abduction_angle(ja, d), w_reward_abduction_angle(ja, d))

Eval_stand_still ==
    /\ pc = "ready"
    /\ \E c \in Commands, ja \in PoseVecs, dp \in PoseVecs, th \in Thresholds :
        Evaluate("stand_still",
                 [commands |-> c, joint_angles |-> ja, default_pose |-> dp,
                  command_threshold |-> th],
                 k_reward_stand_still(c, ja, dp, th),
                 w_reward_stand_still(c, ja, dp, th))

Eval_foot_slip ==
    /\ pc = "ready"
    /\ \E ps \in FootStates, cf \in FirstContacts :
        Evaluate("foot_slip", [pipeline_state |-> ps, contact_filt |-> cf],
                 k_reward_foot_slip(ps, cf, FeetSiteId, LowerLegBodyId),
                 w_reward_foot_slip(ps, cf, FeetSiteId, LowerLegBodyId))

Eval_termination ==
    /\ pc = "ready"
    /\ \E done \in BOOLEAN, step \in 0..MaxStep, th \in 0..MaxStep :
        Evaluate("termination", [done |-> done, step |-> step, step_threshold |-> th],
                 k_reward_termination(done, step, th),
                 w_reward_termination(done, step, th))

Eval_geom_collision ==
    /\ pc = "ready"
    /\ \E cs \in ContactLists, ids \in GeomIdLists :
        LET ps == [contact |-> cs]
        IN  Evaluate("geom_collision", [pipeline_state |-> ps, geom_ids |-> ids],
                     k_reward_geom_collision(ps, ids), w_reward_geom_collision(ps, ids))

\* The aggregator applied to a catalog output under the scale mapping as
\* loaded, or under its scales of catalog terms, one of them left out
Aggregate ==
    /\ pc = "ready"
    /\ \E values \in ValueMaps, drop \in CatalogTermSet \cup {"none", "as loaded"} :
          LET sc == IF drop = "as loaded" THEN scales
                    ELSE Restrict(scales, CatalogTermSet \ {drop})
              res == aggregate(values, sc)
          IN  /\ call' = [term |-> "aggregate", args |-> [values |-> values, scales |-> sc]]
              /\ ret' = [term |-> "aggregate", error |-> res.error, total |-> res.total]
    /\ pc' = "evaluated"
    /\ UNCHANGED <<config_dict_defined, cfg_pc, scales, tracking_sigma>>

\* The caller takes the result; the next step starts from a fresh snapshot
Consume ==
    /\ pc = "evaluated"
    /\ pc' = "ready"
    /\ call' = [term |-> "none"]
    /\ ret' = [term |-> "none"]
    /\ UNCHANGED <<config_dict_defined, cfg_pc, scales, tracking_sigma>>

Init ==
    /\ config_dict_defined \in BOOLEAN
    /\ cfg_pc = 1
    /\ scales = <<>>
    /\ tracking_sigma = NaN
    /\ pc = "start"
    /\ call = [term |-> "none"]
    /\ ret = [term |-> "none"]

Next ==
    \/ ConfigCreate
    \/ ConfigNameError
    \/ ConfigAssign
    \/ Eval_lin_vel_z
    \/ Eval_ang_vel_xy
    \/ Eval_tracking_orientation
    \/ Eval_orientation
    \/ Eval_torques
    \/ Eval_joint_acceleration
    \/ Eval_mechanical_work
    \/ Eval_action_rate
    \/ Eval_tracking_lin_vel
    \/ Eval_tracking_ang_vel
    \/ Eval_feet_air_time
    \/ Eval_abduction_angle
    \/ Eval_stand_still
    \/ Eval_foot_slip
    \/ Eval_termination
    \/ Eval_geom_collision
    \/ Aggregate
    \/ Consume

Spec == Init /\ [][Next]_vars

-----------------------------------------------------------------------------
(* Properties.                                                             *)

\* the profile has been loaded: every statement of the module has run
Loaded == pc \in {"ready", "evaluated"}

InUnit(v) == FLeq(Zero, v) /\ FLeq(v, One)
InWide(v) == FLeq(R(-1000, 1), v) /\ FLeq(v, R(1000, 1))
IsTerm(t) == ret.term = t
Numeric == ret.term \notin {"none", "aggregate", "termination"}

\* C1: every term's value lies within its convention's bound, [0,1] in the
\* unit-interval catalog and [-1000,1000] in the signed-wide catalog, for
\* every finite input; termination is a boolean.
C1_OutputsWithinBounds ==
    /\ Numeric => InUnit(ret.k) /\ InWide(ret.w)
    /\ IsTerm("termination") => ret.k \in BOOLEAN /\ ret.w \in BOOLEAN

\* C2: termination is true iff done and step < step_threshold, false at
\* step = step_threshold and whenever done is false, the same in both catalogs.
C2_TerminationIff ==
    IsTerm("termination") =>
        /\ ret.k = TRUE <=> (call.args.done = TRUE /\ call.args.step < call.args.step_threshold)
        /\ call.args.step = call.args.step_threshold => ret.k = FALSE
        /\ call.args.done = FALSE => ret.k = FALSE
        /\ ret.w = ret.k

C2_Witness ==
    /\ IsTerm("termination")
    /\ call.args.done = TRUE
    /\ call.args.step = call.args.step_threshold
    /\ ret.k = FALSE

PlanarNormLeq(c, t) == ~norm_gt(SubSeq(c, 1, 2), t)

\* C3: feet_air_time is exactly 0 whenever the planar norm of the command
\* (commands[:2]) is <= 0.05, whatever the air times, the first-contact
\* mask, the minimum air time and the yaw component.
C3_ZeroWhenPlanarNormSmall ==
    (IsTerm("feet_air_time") /\ PlanarNormLeq(call.args.commands, R(5, 100)))
        => ret.k = Zero /\ ret.w = Zero

\* C4: stand_still is exactly 0 whenever the planar norm of the command is
\* >= command_threshold, whatever the joint angles and default pose; below
\* the threshold it is non-negative, and 0 when the joint angles equal the
\* default pose.
C4_StandStillGate ==
    IsTerm("stand_still") =>
        LET a == call.args
            below == norm_lt(SubSeq(a.commands, 1, 2), a.command_threshold)
        IN  /\ ~below => ret.k = Zero /\ ret.w = Zero
            /\ below => /\ FLeq(Zero, ret.k) /\ FLeq(Zero, ret.w)
                        /\ a.joint_angles = a.default_pose => ret.k = Zero /\ ret.w = Zero

TouchesWatched(c, ids) ==
    \E g \in 1..Len(ids) : c.geom1 = ids[g] \/ c.geom2 = ids[g]
WithContact(a, c) == [contact |-> Append(a.pipeline_state.contact, c)]
NoNegativeContact(a) ==
    \A j \in 1..Len(a.pipeline_state.contact) : ~FLess(a.pipeline_state.contact[j].dist, Zero)

\* C5 as stated: geom_collision is 0 when no contact distance is negative,
\* and strictly increases each time one more negative-distance contact
\* touching a watched id is added.
C5_StrictlyIncreasing ==
    IsTerm("geom_collision") =>
        LET a == call.args
        IN  /\ NoNegativeContact(a) => ret.k = Zero /\ ret.w = Zero
            /\ \A c \in ContactKinds :
                  (FLess(c.dist, Zero) /\ TouchesWatched(c, a.geom_ids)) =>
                      /\ FLess(ret.k, k_reward_geom_collision(WithContact(a, c), a.geom_ids))
                      /\ FLess(ret.w, w_reward_geom_collision(WithContact(a, c), a.geom_ids))

\* C5 amended: 0 when no contact distance is negative; one more
\* negative-distance contact touching a watched id never lowers the value,
\* and strictly raises it while the value is below the upper clip bound
\* (1 in the unit-interval catalog, reached at a count of 10; 1000 in the
\* signed-wide catalog).
C5_IncreasesBelowClip ==
    IsTerm("geom_collision") =>
        LET a == call.args
        IN  /\ NoNegativeContact(a) => ret.k = Zero /\ ret.w = Zero
            /\ \A c \in ContactKinds :
                  (FLess(c.dist, Zero) /\ TouchesWatched(c, a.geom_ids)) =>
                      LET k2 == k_reward_geom_collision(WithContact(a, c), a.geom_ids)
                          w2 == w_reward_geom_collision(WithContact(a, c), a.geom_ids)
                      IN  /\ FLeq(ret.k, k2)
                          /\ FLess(ret.k, One) => FLess(ret.k, k2)
                          /\ FLeq(ret.w, w2)
                          /\ FLess(ret.w, R(1000, 1)) => FLess(ret.w, w2)

C5_Witness ==
    /\ IsTerm("geom_collision")
    /\ call.args.geom_ids = <<5, 9>>
    /\ Len(call.args.pipeline_state.contact) = 5
    /\ ret.k = One
    /\ ret.w = R(10, 1)

RECURSIVE WeightedSum(_, _, _)
WeightedSum(S, values, sc) ==
    IF S = {} THEN Zero
    ELSE LET t == CHOOSE u \in S : TRUE
         IN  FAdd(FMul(sc[t], values[t]), WeightedSum(S \ {t}, values, sc))

C7_LoadedKeysNameCatalogTerms ==
    Loaded => \A key \in DOMAIN scales : key \in CatalogTermSet

GaitKeys ==
    { "tracking_orientation", "joint_acceleration", "mechanical_work", "feet_air_time",
      "abduction_angle", "foot_slip", "knee_collision", "stand_still_joint_velocity" }

\* C8: in the wheeled profile, loaded with config_dict bound, the
\* feet/gait-specific scales are all exactly 0, every other configured scale
\* is finite and non-zero, and tracking_sigma is strictly positive.
C8_WheeledProfile ==
    Loaded =>
        /\ config_dict_defined
        /\ \A key \in GaitKeys : key \in DOMAIN scales /\ scales[key] = Zero
        /\ \A key \in (DOMAIN scales) \ GaitKeys :
              Kind(scales[key]) = "fin" /\ scales[key] # Zero
        /\ Kind(tracking_sigma) = "fin" /\ FLess(Zero, tracking_sigma)

C8_Witness ==
    /\ config_dict_defined
    /\ pc = "ready"
    /\ cfg_pc = Len(WheeledProgram) + 1
    /\ DOMAIN scales = GaitKeys \cup
          { "tracking_lin_vel", "tracking_ang_vel", "orientation", "lin_vel_z",
            "ang_vel_xy", "torques", "action_rate", "stand_still", "termination",
            "body_collision" }
    /\ scales["body_collision"] = R(-10, 1)
    /\ scales["foot_slip"] = Zero
    /\ tracking_sigma = R(1, 4)

TrackingTerms == {"tracking_lin_vel", "tracking_ang_vel", "tracking_orientation"}

\* the squared tracking error of a call
TrackErr(term, a) ==
    IF term = "tracking_lin_vel"
    THEN FSum(VSquare(VSub(SubSeq(a.commands, 1, 2),
                           SubSeq(rotate(a.xd.vel, quat_inv(a.x.rot)), 1, 2))))
    ELSE IF term = "tracking_ang_vel"
    THEN FSquare(FSub(a.commands[3], rotate(a.xd.ang, quat_inv(a.x.rot))[3]))
    ELSE FSum(VSquare(VSub(rotate(<<Zero, Zero, One>>, quat_inv(a.x.rot)), a.desired)))

TrackK(term, a) ==
    IF term = "tracking_lin_vel"
    THEN k_reward_tracking_lin_vel(a.commands, a.x, a.xd, a.sigma)
    ELSE IF term = "tracking_ang_vel"
    THEN k_reward_tracking_ang_vel(a.commands, a.x, a.xd, a.sigma)
    ELSE k_reward_tracking_orientation(a.desired, a.x, a.sigma)

\* the same call with another target: same pose, velocity and sigma
OtherTargets(term, a) ==
    IF term = "tracking_orientation"
    THEN {[a EXCEPT !.desired = d] : d \in Desired}
    ELSE {[a EXCEPT !.commands = c] : c \in Commands}

\* C9 as stated: in the unit-interval catalog a tracking term is exactly 1
\* at zero error and strictly decreasing in the error magnitude, tracking_sigma
\* fixed and positive.
C9_StrictlyDecreasing ==
    (ret.term \in TrackingTerms /\ FLess(Zero, call.args.sigma)) =>
        /\ TrackErr(ret.term, call.args) = Zero => ret.k = One
        /\ \A b \in OtherTargets(ret.term, call.args) :
              FLess(TrackErr(ret.term, call.args), TrackErr(ret.term, b))
                  => FLess(TrackK(ret.term, b), ret.k)

\* error / (tracking_sigma + EPS), the magnitude of the exponent
TrackRatio(term, a) == FDiv(TrackErr(term, a), FAdd(a.sigma, EPS))

\* C9 amended: exactly 1 at zero error, and a larger error never gives a
\* larger value; the decrease is not strict in float32.  With
\* r = error / (tracking_sigma + EPS): the value is exactly 1.0 for every
\* r <= 2^-26 (a non-zero error under tracking_sigma = 3.4028235e38
\* included) and below 1 from r = 10^-6 on; it is exactly 0 for every
\* r >= 104 and above 0 up to r = 87; of two errors with r between 1/1000
\* and 87, one's r at least twice the other's, the larger gives the strictly
\* smaller value.
C9_NonIncreasingSaturating ==
    (ret.term \in TrackingTerms /\ FLess(Zero, call.args.sigma)) =>
        LET r == TrackRatio(ret.term, call.args)
        IN  /\ TrackErr(ret.term, call.args) = Zero => ret.k = One
            /\ FLeq(r, R(1, 67108864)) => ret.k = One
            /\ FLeq(R(1, 1000000), r) => FLess(ret.k, One)
            /\ FLeq(R(104, 1), r) => ret.k = Zero
            /\ FLeq(r, R(87, 1)) => FLess(Zero, ret.k)
            /\ \A b \in OtherTargets(ret.term, call.args) :
                  LET rb == TrackRatio(ret.term, b)
                  IN  /\ FLess(TrackErr(ret.term, call.args), TrackErr(ret.term, b))
                            => FLeq(TrackK(ret.term, b), ret.k)
                      /\ (/\ FLeq(R(1, 1000), r)
                          /\ FLeq(FMul(r, R(2, 1)), rb)
                          /\ FLeq(rb, R(87, 1)))
                            => FLess(TrackK(ret.term, b), ret.k)

\* a yaw-rate error of 6 under the profile's tracking_sigma: exactly 0, as
\* for the larger error 7
C9_Witness ==
    /\ IsTerm("tracking_ang_vel")
    /\ call.args.commands = <<Zero, Zero, R(6, 1)>>
    /\ call.args.xd.ang = ZeroVec3
    /\ call.args.sigma = R(1, 4)
    /\ ret.k = Zero

\* the unit-interval catalog's divisor of a term (1: no division)
Divisor(term) ==
    CASE term = "lin_vel_z" -> R(4, 1)
      [] term = "ang_vel_xy" -> R(25, 1)
      [] term = "orientation" -> R(2, 1)
      [] term = "torques" -> R(1200, 1)
      [] term = "joint_acceleration" -> R(120000, 1)
      [] term = "mechanical_work" -> R(600, 1)
      [] term = "action_rate" -> R(48, 1)
      [] term = "feet_air_time" -> R(2, 1)
      [] term = "abduction_angle" -> PiSquared
      [] term = "stand_still" -> TwelvePi
      [] term = "foot_slip" -> R(16, 1)
      [] term = "geom_collision" -> R(10, 1)
      [] OTHER -> One

Scaled(v, d) == IF d = One THEN v ELSE FDiv(v, d)

\* C10: the two catalogs apply their final steps to the same pre-clip value:
\* the unit-interval result is clip(raw / divisor, 0, 1) and the signed-wide
\* result clip(raw, -1000, 1000).  Seen from the results: a signed-wide
\* result w strictly inside (-1000, 1000) is raw itself, so the unit-interval
\* result is clip(w / divisor, 0, 1); w = 1000 leaves raw >= 1000 and
\* w = -1000 leaves raw <= -1000; termination is the same boolean in both.
C10_SameFormulaUpToFinalStep ==
    /\ Numeric =>
          LET d == Divisor(ret.term)
          IN  /\ IsNaN(ret.w) <=> IsNaN(ret.k)
              /\ (FLess(R(-1000, 1), ret.w) /\ FLess(ret.w, R(1000, 1)))
                    => ret.k = Clip(Scaled(ret.w, d), Zero, One)
              /\ ret.w = R(1000, 1) => FLeq(Clip(FDiv(R(1000, 1), d), Zero, One), ret.k)
              /\ ret.w = R(-1000, 1) => ret.k = Zero
    /\ IsTerm("termination") => ret.k = ret.w
    /\ (IsTerm("lin_vel_z") /\ call.args.xd.vel[3] = R(2, 1))
          => ret.k = One /\ ret.w = R(4, 1)
    /\ (IsTerm("torques") /\ call.args.torques = Const(NJoints, R(10, 1)))
          => ret.k = One
    /\ (/\ IsTerm("joint_acceleration")
        /\ call.args.joint_vel = Const(NJoints, R(1, 10))
        /\ call.args.last_joint_vel = Const(NJoints, Zero)
        /\ call.args.dt = R(19999, 1000000))
          => ret.w = R(300, 1) /\ ret.k = R(1, 400)

\* a pre-clip value strictly inside both clip ranges: twelve joints going
\* from 0 to 0.1 in dt + EPS = 0.02 give 12 * 5^2 = 300
C10_Witness ==
    /\ IsTerm("joint_acceleration")
    /\ call.args.joint_vel = Const(NJoints, R(1, 10))
    /\ call.args.last_joint_vel = Const(NJoints, Zero)
    /\ call.args.dt = R(19999, 1000000)
    /\ ret.w = R(300, 1)
    /\ ret.k = R(1, 400)

\* the number of (watched id, contact) pairs where the contact has a
\* negative distance and one of its two geoms is that id
WatchedHits(a) ==
    LET c == a.pipeline_state.contact
        ids == a.geom_ids
    IN  Cardinality({p \in (1..Len(ids)) \X (1..Len(c)) :
            /\ FLess(c[p[2]].dist, Zero)
            /\ (c[p[2]].geom1 = ids[p[1]] \/ c[p[2]].geom2 = ids[p[1]])})

BothWatched(c, ids) ==
    /\ \E g \in 1..Len(ids) : c.geom1 = ids[g]
    /\ \E g \in 1..Len(ids) : c.geom2 = ids[g]
    /\ c.geom1 # c.geom2

\* C11: the pre-clip value of geom_collision is the sum over the watched ids
\* of the number of negative-distance contacts having that id as geom1 or
\* geom2: the unit-interval result is that count / 10 clipped to [0,1] and
\* the signed-wide result the count clipped to [-1000,1000]; a contact of
\* distance >= 0 or touching no watched id adds nothing, a negative-distance
\* contact whose two ids are both watched adds 2; contacts (5,9,-0.01) and
\* (1,2,0.5) with watched ids {9} give 0.1.
C11_CountPerWatchedId ==
    IsTerm("geom_collision") =>
        LET a == call.args
            n == WatchedHits(a)
        IN  /\ ret.k = Clip(FDiv(R(n, 1), R(10, 1)), Zero, One)
            /\ ret.w = Clip(R(n, 1), R(-1000, 1), R(1000, 1))
            /\ \A c \in ContactKinds :
                  /\ (~FLess(c.dist, Zero) \/ ~TouchesWatched(c, a.geom_ids)) =>
                        /\ WatchedHits([a EXCEPT !.pipeline_state = WithContact(a, c)]) = n
                        /\ k_reward_geom_collision(WithContact(a, c), a.geom_ids) = ret.k
                        /\ w_reward_geom_collision(WithContact(a, c), a.geom_ids) = ret.w
                  /\ (FLess(c.dist, Zero) /\ BothWatched(c, a.geom_ids)) =>
                        w_reward_geom_collision(WithContact(a, c), a.geom_ids)
                            = FAdd(ret.w, R(2, 1))
            /\ (a.geom_ids = <<9>> /\ a.pipeline_state.contact =
                    << [geom1 |-> 5, geom2 |-> 9, dist |-> R(-1, 100)],
                       [geom1 |-> 1, geom2 |-> 2, dist |-> R(1, 2)] >>)
                  => ret.k = R(1, 10)

C11_Witness ==
    /\ IsTerm("geom_collision")
    /\ call.args.geom_ids = <<9>>
    /\ call.args.pipeline_state.contact =
          << [geom1 |-> 5, geom2 |-> 9, dist |-> R(-1, 100)],
             [geom1 |-> 1, geom2 |-> 2, dist |-> R(1, 2)] >>
    /\ ret.k = R(1, 10)
    /\ ret.w = One

=============================================================================
